---- MODULE Spec2Model ----
(***************************************************************************)
(* A model of expense_tracker.py: the JSON storage helpers                 *)
(* (ensure_expenses_file, load_expenses, save_expenses), add_expense,      *)
(* view_expenses, generate_monthly_summary and main.                       *)
(*                                                                         *)
(* Text is a sequence of character codes (ASCII), so that strip, lower,    *)
(* strptime, isoformat and float act on characters as the code does.       *)
(* An amount is a float with at most three fraction digits, held exactly   *)
(* as an integer (thousandths before round(amt, 2), hundredths after),     *)
(* or one of the IEEE specials nan and inf.                                *)
(***************************************************************************)
EXTENDS Integers, Sequences, FiniteSets, TLC

----------------------------------------------------------------------------
(* Bounds of the model. *)

\* The longest collection the durable document holds.
MaxLen == 3
\* Calls (add / view / summary) one process makes.
MaxOps == 2
\* Seconds the clock advances (the backup's timestamp, generated_at).
MaxClock == 1
\* Failing file operations (open, write, rename) in one run.
MaxFaults == 1

----------------------------------------------------------------------------
(* Text helpers. *)

SetMin(S) == CHOOSE x \in S : \A y \in S : x <= y
SetMax(S) == CHOOSE x \in S : \A y \in S : x >= y

\* str.isspace for the ASCII blanks.
IsSpace(c) == c \in {32, 9, 10, 13, 11, 12}
IsDigit(c) == c \in 48..57
DigitVal(c) == c - 48

\* str.strip(): leading and trailing whitespace removed.
Strip(s) ==
  LET keep == {i \in 1..Len(s) : ~IsSpace(s[i])}
  IN IF keep = {} THEN <<>> ELSE SubSeq(s, SetMin(keep), SetMax(keep))

\* str.lower() on ASCII text.
Lower(s) == [i \in 1..Len(s) |-> IF s[i] \in 65..90 THEN s[i] + 32 ELSE s[i]]

\* Python's str "<": lexicographic on character codes, a proper prefix first.
StrLess(a, b) ==
  \/ \E i \in 1..Len(a) :
       /\ i <= Len(b)
       /\ a[i] < b[i]
       /\ \A j \in 1..(i - 1) : a[j] = b[j]
  \/ /\ Len(a) < Len(b)
     /\ \A j \in 1..Len(a) : a[j] = b[j]

\* The decimal value of a text of digits.
RECURSIVE DigitsVal(_)
DigitsVal(s) ==
  IF s = <<>> THEN 0
  ELSE 10 * DigitsVal(SubSeq(s, 1, Len(s) - 1)) + DigitVal(s[Len(s)])

AllDigits(s) == \A i \in 1..Len(s) : IsDigit(s[i])

\* Zero-padded decimal of width 2 and 4 (the %02d and %04d of isoformat).
Pad2(n) == <<48 + ((n \div 10) % 10), 48 + (n % 10)>>
Pad4(n) == <<48 + ((n \div 1000) % 10), 48 + ((n \div 100) % 10)>> \o Pad2(n % 100)

----------------------------------------------------------------------------
(* Dates: datetime.strptime(s, "%Y-%m-%d").date() and date.isoformat(). *)

IsLeap(y) == (y % 4 = 0 /\ y % 100 # 0) \/ y % 400 = 0

DaysInMonth(y, m) ==
  IF m = 2 THEN (IF IsLeap(y) THEN 29 ELSE 28)
  ELSE IF m \in {4, 6, 9, 11} THEN 30 ELSE 31

NoDate == [ok |-> FALSE, y |-> 0, m |-> 0, d |-> 0]

\* The %m directive: 1[0-2] | 0[1-9] | [1-9].
MonthToken(t) ==
  \/ Len(t) = 2 /\ t[1] = 49 /\ t[2] \in 48..50
  \/ Len(t) = 2 /\ t[1] = 48 /\ t[2] \in 49..57
  \/ Len(t) = 1 /\ t[1] \in 49..57

\* The %d directive: 3[01] | [12]\d | 0[1-9] | [1-9] | " "[1-9].
DayToken(t) ==
  \/ Len(t) = 2 /\ t[1] = 51 /\ t[2] \in 48..49
  \/ Len(t) = 2 /\ t[1] \in 49..50 /\ IsDigit(t[2])
  \/ Len(t) = 2 /\ t[1] = 48 /\ t[2] \in 49..57
  \/ Len(t) = 1 /\ t[1] \in 49..57
  \/ Len(t) = 2 /\ t[1] = 32 /\ t[2] \in 49..57

\* Four digits, "-", a month token, "-", a day token and nothing after it;
\* then date(y, m, d), which rejects year 0 and a day past the month's end.
Strptime(s) ==
  IF ~(Len(s) >= 8 /\ AllDigits(SubSeq(s, 1, 4)) /\ s[5] = 45) THEN NoDate
  ELSE
    LET mlen == IF s[7] = 45 THEN 1 ELSE 2
        mt   == SubSeq(s, 6, 5 + mlen)
        dt   == SubSeq(s, 7 + mlen, Len(s))
    IN IF ~(s[6 + mlen] = 45 /\ MonthToken(mt) /\ DayToken(dt)) THEN NoDate
       ELSE
         LET y == DigitsVal(SubSeq(s, 1, 4))
             m == DigitsVal(mt)
             d == DigitsVal(IF dt[1] = 32 THEN Tail(dt) ELSE dt)
         IN IF y >= 1 /\ d <= DaysInMonth(y, m)
            THEN [ok |-> TRUE, y |-> y, m |-> m, d |-> d]
            ELSE NoDate

IsoFormat(dt) == Pad4(dt.y) \o <<45>> \o Pad2(dt.m) \o <<45>> \o Pad2(dt.d)

----------------------------------------------------------------------------
(* Amounts: float(amount_str), the test amt < 0, round(amt, 2). *)

NoFloat == [ok |-> FALSE, kind |-> "num", neg |-> FALSE, mills |-> 0]

\* float() of a text: blanks stripped, an optional sign, then "nan", "inf" or
\* "infinity" in any case, or digits with at most one "." and a digit on one
\* side of it. The value is exact in thousandths (the model's amount texts
\* have at most three fraction digits and no exponent).
ParseFloat(raw) ==
  LET s      == Strip(raw)
      signed == s # <<>> /\ s[1] \in {43, 45}
      neg    == s # <<>> /\ s[1] = 45
      body   == IF signed THEN Tail(s) ELSE s
      word   == Lower(body)
      dots   == {i \in 1..Len(body) : body[i] = 46}
  IN IF word = <<110, 97, 110>>
     THEN [ok |-> TRUE, kind |-> "nan", neg |-> neg, mills |-> 0]
     ELSE IF word \in {<<105, 110, 102>>, <<105, 110, 102, 105, 110, 105, 116, 121>>}
     THEN [ok |-> TRUE, kind |-> "inf", neg |-> neg, mills |-> 0]
     ELSE IF Cardinality(dots) > 1 THEN NoFloat
     ELSE
       LET dot == IF dots = {} THEN Len(body) + 1 ELSE SetMin(dots)
           ip  == SubSeq(body, 1, dot - 1)
           fp  == SubSeq(body, dot + 1, Len(body))
       IN IF AllDigits(ip) /\ AllDigits(fp) /\ Len(ip) + Len(fp) >= 1 /\ Len(fp) <= 3
          THEN [ok |-> TRUE, kind |-> "num", neg |-> neg,
                mills |-> DigitsVal(ip) * 1000 + DigitsVal(fp) * 10^(3 - Len(fp))]
          ELSE NoFloat

\* amt < 0 on an IEEE double: false for nan and for -0.0.
IsNegative(f) ==
  \/ f.kind = "num" /\ f.neg /\ f.mills > 0
  \/ f.kind = "inf" /\ f.neg

\* round(amt, 2) of a non-negative float, in hundredths. A value that ends
\* in half a hundredth rounds either way, as its binary expansion decides.
Round2(f) ==
  IF f.kind # "num" THEN {[kind |-> f.kind, cents |-> 0]}
  ELSE LET q == f.mills \div 10
           r == f.mills % 10
       IN {[kind |-> "num", cents |-> c] :
             c \in (IF r < 5 THEN {q} ELSE IF r > 5 THEN {q + 1} ELSE {q, q + 1})}

Zero == [kind |-> "num", cents |-> 0]

\* float(e.get("amount", 0.0)), 0.0 when that raises: a missing amount and
\* one that is no number count as 0.0.
AsFloat(a) == IF a.kind \in {"absent", "text"} THEN Zero ELSE a

\* a + b on doubles, exact on hundredths; nan absorbs, then inf.
FloatAdd(a, b) ==
  IF a.kind = "nan" \/ b.kind = "nan" THEN [kind |-> "nan", cents |-> 0]
  ELSE IF a.kind = "inf" \/ b.kind = "inf" THEN [kind |-> "inf", cents |-> 0]
  ELSE [kind |-> "num", cents |-> a.cents + b.cents]

----------------------------------------------------------------------------
(* Sorting, the summary dict, the aggregation loop. *)

Front(s) == SubSeq(s, 1, Len(s) - 1)
Last(s) == s[Len(s)]

\* sorted(s, key = ...): stable, so equal keys keep their order in s.
\* less[i][j]: the key of s[i] is less than the key of s[j].
StableSort(s, less) ==
  LET n == Len(s)
      rank(i) == Cardinality({j \in 1..n :
                    less[j][i] \/ (~less[i][j] /\ j < i)}) + 1
  IN [k \in 1..n |-> s[CHOOSE i \in 1..n : rank(i) = k]]

\* "Misc"
Misc == <<77, 105, 115, 99>>

\* A dict is the sequence of its items in insertion order.
DictKeys(dict) == [i \in 1..Len(dict) |-> dict[i].key]
DictHas(dict, k) == \E i \in 1..Len(dict) : dict[i].key = k
DictGet(dict, k, default) ==
  IF DictHas(dict, k)
  THEN dict[CHOOSE i \in 1..Len(dict) : dict[i].key = k].val
  ELSE default
\* dict[k] = v: an existing key keeps its place, a new one goes last.
DictSet(dict, k, v) ==
  IF DictHas(dict, k)
  THEN [i \in 1..Len(dict) |-> IF dict[i].key = k THEN [key |-> k, val |-> v] ELSE dict[i]]
  ELSE Append(dict, [key |-> k, val |-> v])

\* The month compared, the year not.
InMonthAs(e, month, year) ==
  LET d == Strptime(e.date) IN d.ok /\ d.m = month

\* Line 246, after the strptime of lines 241-245: the entry's date parses
\* and lies in the month.
InMonth(e, month, year) ==
  LET d == Strptime(e.date) IN d.ok /\ d.y = year /\ d.m = month

\* e.get("category", "Misc")
CategoryOf(e) == IF e.hascat THEN e.category ELSE Misc

\* The loop of generate_monthly_summary over the loaded entries.
RECURSIVE Aggregate(_, _, _)
Aggregate(expenses, month, year) ==
  IF expenses = <<>> THEN [summary |-> <<>>, total |-> Zero]
  ELSE
    LET prev == Aggregate(Front(expenses), month, year)
        e    == Last(expenses)
    IN IF InMonth(e, month, year)
       THEN LET category == CategoryOf(e)
                amt      == AsFloat(e.amount)
            IN [summary |-> DictSet(prev.summary, category,
                                    FloatAdd(DictGet(prev.summary, category, Zero), amt)),
                total   |-> FloatAdd(prev.total, amt)]
       ELSE prev

LowerKeyLess(a, b) == StrLess(Lower(a.key), Lower(b.key))

\* The printed category lines: sorted(summary.items(), key = lower-cased name).
DisplayItems(summary) ==
  StableSort(summary, [i \in 1..Len(summary) |-> [j \in 1..Len(summary) |->
                         LowerKeyLess(summary[i], summary[j])]])

\* The CSV's category rows (between the header row and the blank row):
\* for k, v in summary.items().
CsvItems(summary) == summary

\* view_expenses: parse_safe, date.min for a date that does not parse.
DateOrdinal(e) ==
  LET d == Strptime(e.date)
  IN IF d.ok THEN d.y * 10000 + d.m * 100 + d.d ELSE 10101
DateLess(a, b) == DateOrdinal(a) < DateOrdinal(b)
SortedForDisplay(expenses) ==
  StableSort(expenses, [i \in 1..Len(expenses) |-> [j \in 1..Len(expenses) |->
                          DateLess(expenses[i], expenses[j])]])

RECURSIVE SumAmounts(_)
SumAmounts(expenses) ==
  IF expenses = <<>> THEN Zero
  ELSE FloatAdd(SumAmounts(Front(expenses)), AsFloat(Last(expenses).amount))

\* calendar.month_name[month]
MonthName(month) ==
  <<"January", "February", "March", "April", "May", "June", "July",
    "August", "September", "October", "November", "December">>[month]

----------------------------------------------------------------------------
(* Files. A file is its content as json.load sees it:                      *)
(*   "list"       a complete JSON array, the entries in data               *)
(*   "object"     complete JSON that is no array                           *)
(*   "empty"      zero bytes (just created or truncated by open(.., "w"))  *)
(*   "malformed"  any other text: a partial write, an overwritten tail     *)

Missing    == [exists |-> FALSE, kind |-> "none", data |-> <<>>]
EmptyFile  == [exists |-> TRUE, kind |-> "empty", data |-> <<>>]
Malformed  == [exists |-> TRUE, kind |-> "malformed", data |-> <<>>]
ObjectFile == [exists |-> TRUE, kind |-> "object", data |-> <<>>]
ListFile(d) == [exists |-> TRUE, kind |-> "list", data |-> d]

\* An empty list taken for a corrupted document.
IsValidListAs(file) == file.exists /\ file.kind = "list" /\ file.data # <<>>

\* json.load(f) followed by isinstance(data, list), lines 60-62.
IsValidList(file) == file.exists /\ file.kind = "list"

\* The number of decimal digits of n >= 0.
RECURSIVE NumDigits(_)
NumDigits(n) == IF n < 10 THEN 1 ELSE 1 + NumDigits(n \div 10)

\* The length of repr(float): "10.0", "2.5", "2.67", "NaN", "Infinity".
AmountLen(a) ==
  IF a.kind = "nan" THEN 3
  ELSE IF a.kind = "inf" THEN 8
  ELSE IF a.kind = "num"
  THEN NumDigits(a.cents \div 100) + 1
       + (IF a.cents % 10 # 0 THEN 2 ELSE 1)
  ELSE 0

\* The bytes json.dump(expenses, f, indent=2) writes: "[]" for no entry,
\* else "[\n" + the entries joined by ",\n" + "\n]", an entry being
\* four indented "key": value lines between "  {\n" and "\n  }".
EntryLen(e) ==
  81 + Len(e.date) + Len(e.category) + AmountLen(e.amount) + Len(e.description)
RECURSIVE EntriesLen(_)
EntriesLen(d) == IF d = <<>> THEN 0 ELSE EntriesLen(Front(d)) + EntryLen(Last(d)) + 2
JsonLen(d) == IF d = <<>> THEN 2 ELSE 2 + EntriesLen(d)

\* What a file holds after json.dump(d, f) and the close of f, where f was
\* opened with "w" (position 0) and the file held `file` at the write: the
\* new text, followed by what the old text had beyond its length.
Overlay(file, d) ==
  IF file.kind = "empty" THEN {ListFile(d)}
  ELSE IF file.kind = "list"
  THEN (IF JsonLen(d) >= JsonLen(file.data) THEN {ListFile(d)} ELSE {Malformed})
  ELSE {ListFile(d), Malformed}

----------------------------------------------------------------------------
(* Inputs. *)

\* " 2025-1-5", "2025-13-01", "2025/01/01"
DateInputs ==
  { <<32, 50, 48, 50, 53, 45, 49, 45, 53>>,
    <<50, 48, 50, 53, 45, 49, 51, 45, 48, 49>>,
    <<50, 48, 50, 53, 47, 48, 49, 47, 48, 49>> }

\* "Food", ""
Food   == <<70, 111, 111, 100>>
CategoryInputs == {Food, <<>>}

\* "10", "-5", "abc", "nan"
AmountInputs ==
  { <<49, 48>>, <<45, 53>>, <<97, 98, 99>>, <<110, 97, 110>> }

DescriptionInputs == { <<>> }

MonthInputs == {1, 2, 13}
YearInputs == {2025}

Procs == {1, 2}

----------------------------------------------------------------------------
(* State. *)

VARIABLES
  doc,      \* expenses.json
  backups,  \* expenses_corrupted_backup_<ts>.json, by timestamp
  exports,  \* summary_<MonthName>_<year>.json / .csv
  clock,    \* datetime.now(), in seconds
  faults,   \* file operations that may still fail
  pc,       \* where each process is
  loc,      \* each process's call: its arguments and locals
  out,      \* what each process's last call returned and printed
  nops,     \* calls each process has made
  hist,     \* the initial collection followed by the entries whose
            \* add_expense returned True, in that order
  doc0      \* the document as the run found it

vars == <<doc, backups, exports, clock, faults, pc, loc, out, nops, hist, doc0>>

NoEntry == [date |-> <<>>, hascat |-> FALSE, category |-> <<>>,
            amount |-> [kind |-> "absent", cents |-> 0], description |-> <<>>]

NoExport == [exists |-> FALSE, ok |-> FALSE, month |-> 0, items |-> <<>>,
             total |-> Zero, at |-> 0]

ExportNames ==
  {<<fmt, MonthName(m), y>> : fmt \in {"json", "csv"}, m \in MonthInputs \cap (1..12),
                              y \in YearInputs}

BlankLoc ==
  [op |-> "main", date_str |-> <<>>, amount_str |-> <<>>, entry |-> NoEntry,
   exp |-> <<>>, fd |-> "none", fdts |-> 0,
   month |-> 0, year |-> 0, export_json |-> FALSE, export_csv |-> FALSE,
   sv |-> "none", sv_old |-> Missing, at_load |-> Missing,
   at_call |-> Missing, bk_at_call |-> <<>>, after |-> {}]

\* The locals of a call as it starts. at_call and bk_at_call remember the
\* document and the backups the call found; after, the processes whose
\* add_expense had returned True by then.
Call(op) ==
  [BlankLoc EXCEPT !.op = op, !.at_call = doc, !.bk_at_call = backups,
                   !.after = {q \in Procs : out[q].op = "add" /\ out[q].ret = "True"}]

BlankOut(op) ==
  [op |-> op, ret |-> "-", ens |-> "-", why |-> "-", bak |-> "-", bakts |-> 0,
   summary |-> <<>>,
   total |-> Zero, shown |-> <<>>, tried |-> {}, wrote |-> {}, rows |-> <<>>]

----------------------------------------------------------------------------
(* File descriptors. open(EXPENSES_FILE, "w") gives a descriptor on the    *)
(* file the name denotes at that moment; a later os.rename of the name     *)
(* moves the file, and the descriptor with it.                             *)

\* The file behind p's descriptor.
Target(p) ==
  IF loc[p].fd = "doc" THEN doc
  ELSE IF loc[p].fd = "bak" THEN backups[loc[p].fdts]
  ELSE EmptyFile

\* The write through p's descriptor leaves content c.
PutTarget(p, c) ==
  /\ doc' = IF loc[p].fd = "doc" THEN c ELSE doc
  /\ backups' = IF loc[p].fd = "bak"
                THEN [backups EXCEPT ![loc[p].fdts] = c]
                ELSE backups

\* The descriptors after os.rename(EXPENSES_FILE, backup ts): one on the
\* document follows it to the backup, one on the replaced backup is orphaned.
Renamed(l, ts) ==
  [q \in Procs |->
     IF l[q].fd = "doc" THEN [l[q] EXCEPT !.fd = "bak", !.fdts = ts]
     ELSE IF l[q].fd = "bak" /\ l[q].fdts = ts THEN [l[q] EXCEPT !.fd = "gone"]
     ELSE l[q]]

----------------------------------------------------------------------------
(* How a call ends. *)

\* An exception leaves ensure_expenses_file / load_expenses / save_expenses:
\* main does not catch it (line 303); add_expense returns False (147-149),
\* view_expenses and generate_monthly_summary return (159-161, 233-235).
RaisedPc(p) == IF loc[p].op = "main" THEN "crashed" ELSE "idle"
RaisedRet(p) ==
  IF loc[p].op = "main" THEN "raised"
  ELSE IF loc[p].op = "add" THEN "False" ELSE "None"

\* ensure_expenses_file returned: main enters its loop, load_expenses reads.
ReturnedPc(p) == IF loc[p].op = "main" THEN "idle" ELSE "load_read"
ReturnedRet(p) == IF loc[p].op = "main" THEN "None" ELSE "-"

----------------------------------------------------------------------------
(* ensure_expenses_file, lines 50-73. *)

\* Line 52: os.path.exists(EXPENSES_FILE).
EnsExists(p) ==
  /\ pc[p] = "ens_exists"
  /\ pc' = [pc EXCEPT ![p] = IF doc.exists THEN "ens_read" ELSE "ens_create"]
  /\ UNCHANGED <<doc, backups, exports, clock, faults, loc, out, nops, hist, doc0>>

\* Line 53: open(EXPENSES_FILE, "w") creates the file, or truncates one
\* that has appeared since line 52; a failure leaves the function.
EnsCreateOpen(p) ==
  /\ pc[p] = "ens_create"
  /\ \/ /\ doc' = EmptyFile
        /\ loc' = [loc EXCEPT ![p].fd = "doc"]
        /\ pc' = [pc EXCEPT ![p] = "ens_create_dump"]
        /\ UNCHANGED <<faults, out>>
     \/ /\ faults > 0
        /\ faults' = faults - 1
        /\ pc' = [pc EXCEPT ![p] = RaisedPc(p)]
        /\ out' = [out EXCEPT ![p].ens = "raised", ![p].ret = RaisedRet(p),
                              ![p].why = "storage"]
        /\ UNCHANGED <<doc, loc>>
  /\ UNCHANGED <<backups, exports, clock, nops, hist, doc0>>

\* Line 54: json.dump([], f) and the close of f; line 55 returns.
EnsCreateDump(p) ==
  /\ pc[p] = "ens_create_dump"
  /\ \/ /\ \E c \in Overlay(Target(p), <<>>) : PutTarget(p, c)
        /\ pc' = [pc EXCEPT ![p] = ReturnedPc(p)]
        /\ out' = [out EXCEPT ![p].ens = "returned", ![p].ret = ReturnedRet(p)]
        /\ UNCHANGED faults
     \/ /\ faults > 0
        /\ faults' = faults - 1
        /\ \E c \in {Target(p), Malformed} : PutTarget(p, c)
        /\ pc' = [pc EXCEPT ![p] = RaisedPc(p)]
        /\ out' = [out EXCEPT ![p].ens = "raised", ![p].ret = RaisedRet(p),
                              ![p].why = "storage"]
  /\ loc' = [loc EXCEPT ![p].fd = "none"]
  /\ UNCHANGED <<exports, clock, nops, hist, doc0>>

\* Lines 58-63 without the isinstance test of line 61.
EnsReadAs(p) ==
  /\ pc[p] = "ens_read"
  /\ IF doc.exists /\ doc.kind \in {"list", "object"}
     THEN /\ pc' = [pc EXCEPT ![p] = ReturnedPc(p)]
          /\ out' = [out EXCEPT ![p].ens = "returned", ![p].ret = ReturnedRet(p)]
     ELSE /\ pc' = [pc EXCEPT ![p] = "ens_rename"]
          /\ out' = out
  /\ UNCHANGED <<doc, backups, exports, clock, faults, loc, nops, hist, doc0>>

\* Lines 58-63: read and validate; any exception (a file that has vanished,
\* malformed JSON, a value that is no list) goes to the backup branch.
EnsRead(p) ==
  /\ pc[p] = "ens_read"
  /\ IF IsValidList(doc)
     THEN /\ pc' = [pc EXCEPT ![p] = ReturnedPc(p)]
          /\ out' = [out EXCEPT ![p].ens = "returned", ![p].ret = ReturnedRet(p)]
     ELSE /\ pc' = [pc EXCEPT ![p] = "ens_rename"]
          /\ out' = out
  /\ UNCHANGED <<doc, backups, exports, clock, faults, loc, nops, hist, doc0>>

\* Lines 65-71: os.rename to the timestamped backup name; a failure is
\* printed and the function goes on to overwrite.
EnsRename(p) ==
  /\ pc[p] = "ens_rename"
  /\ \/ /\ doc.exists
        /\ backups' = [backups EXCEPT ![clock] = doc]
        /\ doc' = Missing
        /\ loc' = Renamed(loc, clock)
        /\ out' = [out EXCEPT ![p].bak = "moved", ![p].bakts = clock]
        /\ UNCHANGED faults
     \/ /\ ~doc.exists
        /\ out' = [out EXCEPT ![p].bak = "failed"]
        /\ UNCHANGED <<doc, backups, loc, faults>>
     \/ /\ doc.exists
        /\ faults > 0
        /\ faults' = faults - 1
        /\ out' = [out EXCEPT ![p].bak = "failed"]
        /\ UNCHANGED <<doc, backups, loc>>
  /\ pc' = [pc EXCEPT ![p] = "ens_recreate"]
  /\ UNCHANGED <<exports, clock, nops, hist, doc0>>

\* Line 72: open(EXPENSES_FILE, "w"), outside the try.
EnsRecreateOpen(p) ==
  /\ pc[p] = "ens_recreate"
  /\ \/ /\ doc' = EmptyFile
        /\ loc' = [loc EXCEPT ![p].fd = "doc"]
        /\ pc' = [pc EXCEPT ![p] = "ens_recreate_dump"]
        /\ UNCHANGED <<faults, out>>
     \/ /\ faults > 0
        /\ faults' = faults - 1
        /\ pc' = [pc EXCEPT ![p] = RaisedPc(p)]
        /\ out' = [out EXCEPT ![p].ens = "raised", ![p].ret = RaisedRet(p),
                              ![p].why = "storage"]
        /\ UNCHANGED <<doc, loc>>
  /\ UNCHANGED <<backups, exports, clock, nops, hist, doc0>>

\* Line 73: json.dump([], f) and the close of f.
EnsRecreateDump(p) ==
  /\ pc[p] = "ens_recreate_dump"
  /\ \/ /\ \E c \in Overlay(Target(p), <<>>) : PutTarget(p, c)
        /\ pc' = [pc EXCEPT ![p] = ReturnedPc(p)]
        /\ out' = [out EXCEPT ![p].ens = "returned", ![p].ret = ReturnedRet(p)]
        /\ UNCHANGED faults
     \/ /\ faults > 0
        /\ faults' = faults - 1
        /\ \E c \in {Target(p), Malformed} : PutTarget(p, c)
        /\ pc' = [pc EXCEPT ![p] = RaisedPc(p)]
        /\ out' = [out EXCEPT ![p].ens = "raised", ![p].ret = RaisedRet(p),
                              ![p].why = "storage"]
  /\ loc' = [loc EXCEPT ![p].fd = "none"]
  /\ UNCHANGED <<exports, clock, nops, hist, doc0>>

----------------------------------------------------------------------------
(* load_expenses, lines 75-78, after its call of ensure_expenses_file. *)

\* The entry alone, the loaded entries dropped.
AppendedAs(expenses, entry) == <<entry>>

\* Line 143: expenses.append(entry).
Appended(expenses, entry) == Append(expenses, entry)

\* What the caller does with the loaded value.
LoadedPc(p) ==
  IF loc[p].op = "add" THEN "save_open"
  ELSE IF loc[p].op = "view" THEN "view_show" ELSE "sum_export"

\* Lines 77-78: json.load raises on a missing or malformed file. A value
\* that is no list is returned as it is: expenses.append (line 143) raises
\* on it, the readers find no entry in it.
LoadRead(p) ==
  /\ pc[p] = "load_read"
  /\ IF IsValidList(doc)
     THEN /\ loc' = [loc EXCEPT
                       ![p].exp = IF loc[p].op = "add"
                                  THEN Appended(doc.data, loc[p].entry)
                                  ELSE doc.data,
                       ![p].at_load = doc]
          /\ pc' = [pc EXCEPT ![p] = LoadedPc(p)]
          /\ out' = out
     ELSE IF doc.exists /\ doc.kind = "object" /\ loc[p].op # "add"
     THEN /\ loc' = [loc EXCEPT ![p].exp = <<>>, ![p].at_load = doc]
          /\ pc' = [pc EXCEPT ![p] = LoadedPc(p)]
          /\ out' = out
     ELSE /\ loc' = loc
          /\ pc' = [pc EXCEPT ![p] = RaisedPc(p)]
          /\ out' = [out EXCEPT ![p].ret = RaisedRet(p), ![p].why = "storage"]
  /\ UNCHANGED <<doc, backups, exports, clock, faults, nops, hist, doc0>>

----------------------------------------------------------------------------
(* save_expenses, lines 80-82, called at line 144. *)

\* Line 81: open(EXPENSES_FILE, "w") truncates the document.
SaveOpen(p) ==
  /\ pc[p] = "save_open"
  /\ \/ /\ doc' = EmptyFile
        /\ loc' = [loc EXCEPT ![p].fd = "doc", ![p].sv = "during", ![p].sv_old = doc]
        /\ pc' = [pc EXCEPT ![p] = "save_dump"]
        /\ UNCHANGED <<faults, out>>
     \/ /\ faults > 0
        /\ faults' = faults - 1
        /\ loc' = [loc EXCEPT ![p].sv = "after", ![p].sv_old = doc]
        /\ pc' = [pc EXCEPT ![p] = "idle"]
        /\ out' = [out EXCEPT ![p].ret = "False", ![p].why = "storage"]
        /\ UNCHANGED doc
  /\ UNCHANGED <<backups, exports, clock, nops, hist, doc0>>

\* Line 82: json.dump(expenses, f) and the close of f; then lines 145-146,
\* or 147-149 when the write fails.
SaveDump(p) ==
  /\ pc[p] = "save_dump"
  /\ \/ /\ \E c \in Overlay(Target(p), loc[p].exp) : PutTarget(p, c)
        /\ out' = [out EXCEPT ![p].ret = "True"]
        /\ hist' = Append(hist, loc[p].entry)
        /\ UNCHANGED faults
     \/ /\ faults > 0
        /\ faults' = faults - 1
        /\ \E c \in {Target(p), Malformed} : PutTarget(p, c)
        /\ out' = [out EXCEPT ![p].ret = "False", ![p].why = "storage"]
        /\ UNCHANGED hist
  /\ pc' = [pc EXCEPT ![p] = "idle"]
  /\ loc' = [loc EXCEPT ![p].fd = "none", ![p].sv = "after"]
  /\ UNCHANGED <<exports, clock, nops, doc0>>

----------------------------------------------------------------------------
(* add_expense, lines 88-149. *)

\* Lines 100-106: the date text parses.
DateAccepted(date_str) == Strptime(date_str).ok

\* Lines 120-126: float(amount_str) succeeds and is not below zero.
AmountAccepted(amount_str) ==
  LET f == ParseFloat(amount_str) IN f.ok /\ ~IsNegative(f)

\* Lines 133-138: the entries add_expense builds from accepted arguments.
BuiltEntries(date_str, category, amount_str, description) ==
  {[date        |-> IsoFormat(Strptime(date_str)),
    hascat      |-> TRUE,
    category    |-> IF category = <<>> THEN Misc ELSE category,
    amount      |-> amt,
    description |-> description] : amt \in Round2(ParseFloat(amount_str))}

\* Lines 94-138: validation; a rejected argument returns False at once
\* (lines 104-106, 124-126), otherwise the entry is built and line 142 calls
\* load_expenses.
AddExpense(p) ==
  /\ pc[p] = "idle"
  /\ nops[p] < MaxOps
  /\ IsValidList(doc) => Len(doc.data) < MaxLen
  /\ \E date_in \in DateInputs, category \in CategoryInputs,
        amount_str \in AmountInputs, description \in DescriptionInputs :
       LET date_str == Strip(date_in)
           call == [Call("add") EXCEPT !.date_str = date_str,
                                       !.amount_str = amount_str]
       IN IF ~DateAccepted(date_str)
          THEN /\ loc' = [loc EXCEPT ![p] = Call("add")]
               /\ out' = [out EXCEPT ![p] =
                            [BlankOut("add") EXCEPT !.ret = "False", !.why = "date"]]
               /\ pc' = pc
          ELSE IF ~AmountAccepted(amount_str)
          THEN /\ loc' = [loc EXCEPT ![p] = Call("add")]
               /\ out' = [out EXCEPT ![p] =
                            [BlankOut("add") EXCEPT !.ret = "False", !.why = "amount"]]
               /\ pc' = pc
          ELSE /\ \E e \in BuiltEntries(date_str, category, amount_str, description) :
                    loc' = [loc EXCEPT ![p] = [call EXCEPT !.entry = e]]
               /\ out' = [out EXCEPT ![p] = BlankOut("add")]
               /\ pc' = [pc EXCEPT ![p] = "ens_exists"]
  /\ nops' = [nops EXCEPT ![p] = nops[p] + 1]
  /\ UNCHANGED <<doc, backups, exports, clock, faults, hist, doc0>>

----------------------------------------------------------------------------
(* view_expenses, lines 152-197. *)

\* Line 158: the call of load_expenses.
ViewExpenses(p) ==
  /\ pc[p] = "idle"
  /\ nops[p] < MaxOps
  /\ loc' = [loc EXCEPT ![p] = Call("view")]
  /\ out' = [out EXCEPT ![p] = BlankOut("view")]
  /\ pc' = [pc EXCEPT ![p] = "ens_exists"]
  /\ nops' = [nops EXCEPT ![p] = nops[p] + 1]
  /\ UNCHANGED <<doc, backups, exports, clock, faults, hist, doc0>>

\* Lines 163-197: the rows by date, the total.
ViewShow(p) ==
  /\ pc[p] = "view_show"
  /\ out' = [out EXCEPT ![p].ret = "None",
                        ![p].rows = SortedForDisplay(loc[p].exp),
                        ![p].total = SumAmounts(loc[p].exp)]
  /\ pc' = [pc EXCEPT ![p] = "idle"]
  /\ UNCHANGED <<doc, backups, exports, clock, faults, loc, nops, hist, doc0>>

----------------------------------------------------------------------------
(* generate_monthly_summary, lines 200-297. *)

\* Lines 221-235: the month is checked, then load_expenses is called.
GenerateMonthlySummary(p) ==
  /\ pc[p] = "idle"
  /\ nops[p] < MaxOps
  /\ \E month \in MonthInputs, year \in YearInputs, ej \in BOOLEAN, ec \in BOOLEAN :
       /\ loc' = [loc EXCEPT ![p] =
                    [Call("summary") EXCEPT !.month = month, !.year = year,
                                          !.export_json = ej, !.export_csv = ec]]
       /\ IF month \in 1..12
          THEN /\ out' = [out EXCEPT ![p] = BlankOut("summary")]
               /\ pc' = [pc EXCEPT ![p] = "ens_exists"]
          ELSE /\ out' = [out EXCEPT ![p] =
                            [BlankOut("summary") EXCEPT !.ret = "None", !.why = "month"]]
               /\ pc' = pc
  /\ nops' = [nops EXCEPT ![p] = nops[p] + 1]
  /\ UNCHANGED <<doc, backups, exports, clock, faults, hist, doc0>>

\* The flags alone, an empty summary exported too.
WantedFormatsAs(summary, export_json, export_csv) ==
  {fmt \in {"json", "csv"} :
     /\ (fmt = "json" => export_json)
     /\ (fmt = "csv" => export_csv)}

\* The formats lines 268 and 285 let through.
WantedFormats(summary, export_json, export_csv) ==
  {fmt \in {"json", "csv"} :
     /\ summary # <<>>
     /\ (fmt = "json" => export_json)
     /\ (fmt = "csv" => export_csv)}

\* Lines 269-280 and 288-294: what a completed export file holds. The
\* amounts are sums of hundredths, which round(v, 2) leaves as they are.
ExportContent(fmt, agg, month, now) ==
  IF fmt = "json"
  THEN [exists |-> TRUE, ok |-> TRUE, month |-> month, items |-> agg.summary,
        total |-> agg.total, at |-> now]
  ELSE [exists |-> TRUE, ok |-> TRUE, month |-> 0, items |-> CsvItems(agg.summary),
        total |-> agg.total, at |-> 0]

\* A file whose open succeeded and whose write did not.
BrokenExport == [NoExport EXCEPT !.exists = TRUE]

\* Lines 237-297: aggregate, print, export. A failing export is printed
\* (lines 282-283, 296-297) and the function goes on.
SummaryExport(p) ==
  /\ pc[p] = "sum_export"
  /\ LET month == loc[p].month
         year  == loc[p].year
         agg   == Aggregate(loc[p].exp, month, year)
         want  == WantedFormats(agg.summary, loc[p].export_json, loc[p].export_csv)
     IN \E failed \in SUBSET want, broken \in SUBSET want :
          /\ broken \subseteq failed
          /\ Cardinality(failed) <= faults
          /\ faults' = faults - Cardinality(failed)
          /\ exports' =
               [n \in ExportNames |->
                  IF n[2] = MonthName(month) /\ n[3] = year /\ n[1] \in want
                  THEN IF n[1] \notin failed
                       THEN ExportContent(n[1], agg, month, clock)
                       ELSE IF n[1] \in broken THEN BrokenExport ELSE exports[n]
                  ELSE exports[n]]
          /\ out' = [out EXCEPT ![p].ret = "None",
                                ![p].summary = agg.summary,
                                ![p].total = agg.total,
                                ![p].shown = DictKeys(DisplayItems(agg.summary)),
                                ![p].tried = want,
                                ![p].wrote = want \ failed]
  /\ pc' = [pc EXCEPT ![p] = "idle"]
  /\ UNCHANGED <<doc, backups, clock, loc, nops, hist, doc0>>

----------------------------------------------------------------------------
(* The environment. *)

\* A second passes.
Tick ==
  /\ clock < MaxClock
  /\ clock' = clock + 1
  /\ UNCHANGED <<doc, backups, exports, faults, pc, loc, out, nops, hist, doc0>>

\* The process stops in the middle of a call; its descriptor is closed and
\* what it had not yet written is lost.
Crash(p) ==
  /\ pc[p] \notin {"idle", "crashed", "stopped", "off"}
  /\ pc' = [pc EXCEPT ![p] = "stopped"]
  /\ loc' = [loc EXCEPT ![p].fd = "none"]
  /\ UNCHANGED <<doc, backups, exports, clock, faults, out, nops, hist, doc0>>

----------------------------------------------------------------------------
(* Specifications. *)

\* "2025-01-05", Food, 12.5: an entry an earlier run has stored.
Stored0 ==
  [date |-> <<50, 48, 50, 53, 45, 48, 49, 45, 48, 53>>, hascat |-> TRUE,
   category |-> Food, amount |-> [kind |-> "num", cents |-> 1250],
   description |-> <<>>]

\* The document main may find: none, a collection, or something that is none.
InitDocs ==
  {Missing, ListFile(<<>>), ListFile(<<Stored0>>), Malformed, ObjectFile}

\* The processes in `running` start in main (line 303) or, the functions
\* being called from outside main, ready for a call (starts says which).
InitWith(docs, running, starts, budget, used) ==
  /\ doc \in docs
  /\ backups = [t \in 0..MaxClock |-> Missing]
  /\ exports = [n \in ExportNames |-> NoExport]
  /\ clock = 0
  /\ faults = budget
  /\ pc \in [Procs -> starts \cup {"off"}]
  /\ \A p \in Procs : pc[p] = "off" <=> p \notin running
  /\ loc = [p \in Procs |-> [BlankLoc EXCEPT !.at_call = doc, !.bk_at_call = backups]]
  /\ out = [p \in Procs |-> BlankOut("main")]
  /\ nops = [p \in Procs |-> used]
  /\ hist = IF IsValidList(doc) THEN doc.data ELSE <<>>
  /\ doc0 = doc

Ensure(p) ==
  \/ EnsExists(p)
  \/ EnsCreateOpen(p)
  \/ EnsCreateDump(p)
  \/ EnsRead(p)
  \/ EnsRename(p)
  \/ EnsRecreateOpen(p)
  \/ EnsRecreateDump(p)

\* One process: main, line 303, then the calls of its loop, with file
\* operations that may fail and a process that may stop.
Init == InitWith(InitDocs, {1}, {"ens_exists", "idle"}, MaxFaults, 0)

Next ==
  \/ \E p \in {1} :
       \/ Ensure(p)
       \/ LoadRead(p)
       \/ AddExpense(p)
       \/ SaveOpen(p)
       \/ SaveDump(p)
       \/ ViewExpenses(p)
       \/ ViewShow(p)
       \/ GenerateMonthlySummary(p)
       \/ SummaryExport(p)
       \/ Crash(p)
  \/ Tick

Spec == Init /\ [][Next]_vars

----------------------------------------------------------------------------
(* generate_monthly_summary as a function of the collection: one call on   *)
(* each collection of at most MaxLen entries, among them entries that no   *)
(* add_expense wrote (a date that does not parse, no category).            *)

Travel == <<84, 114, 97, 118, 101, 108>>
Bills  == <<66, 105, 108, 108, 115>>
food   == <<102, 111, 111, 100>>

StoredEntry(date, hascat, category, cents) ==
  [date |-> date, hascat |-> hascat, category |-> category,
   amount |-> [kind |-> "num", cents |-> cents], description |-> <<>>]

SummaryEntries ==
  { \* 2025-01-05 Travel 30.00
    StoredEntry(<<50, 48, 50, 53, 45, 48, 49, 45, 48, 53>>, TRUE, Travel, 3000),
    \* 2025-01-20 food 10.00
    StoredEntry(<<50, 48, 50, 53, 45, 48, 49, 45, 50, 48>>, TRUE, food, 1000),
    \* 2025-01-05 Bills 5.00
    StoredEntry(<<50, 48, 50, 53, 45, 48, 49, 45, 48, 53>>, TRUE, Bills, 500),
    \* 2025-01-05 Food 100.00
    StoredEntry(<<50, 48, 50, 53, 45, 48, 49, 45, 48, 53>>, TRUE, Food, 10000),
    \* 2025-02-01 Travel 30.00
    StoredEntry(<<50, 48, 50, 53, 45, 48, 50, 45, 48, 49>>, TRUE, Travel, 3000),
    \* bad-date Food 7.00
    StoredEntry(<<98, 97, 100, 45, 100, 97, 116, 101>>, TRUE, Food, 700),
    \* 2025-01-07, no category, 1.50
    StoredEntry(<<50, 48, 50, 53, 45, 48, 49, 45, 48, 55>>, FALSE, <<>>, 150),
    \* 2024-01-05 Bills 5.00
    StoredEntry(<<50, 48, 50, 52, 45, 48, 49, 45, 48, 53>>, TRUE, Bills, 500) }

SeqsUpTo(S, n) == UNION {[1..k -> S] : k \in 0..n}

InitSummary ==
  InitWith({ListFile(d) : d \in SeqsUpTo(SummaryEntries, MaxLen)},
           {1}, {"idle"}, 0, MaxOps - 1)

NextSummary ==
  \E p \in {1} :
    \/ GenerateMonthlySummary(p)
    \/ EnsExists(p)
    \/ EnsRead(p)
    \/ LoadRead(p)
    \/ SummaryExport(p)

SpecSummary == InitSummary /\ [][NextSummary]_vars

----------------------------------------------------------------------------
(* Two processes, one add_expense each, on the same document; no file      *)
(* operation fails.                                                        *)

InitConc ==
  InitWith({Missing, ListFile(<<>>), ListFile(<<Stored0>>)},
           Procs, {"idle"}, 0, MaxOps - 1)

NextConc ==
  \/ \E p \in Procs :
       \/ AddExpense(p)
       \/ Ensure(p)
       \/ LoadRead(p)
       \/ SaveOpen(p)
       \/ SaveDump(p)
  \/ Tick

SpecConc == InitConc /\ [][NextConc]_vars

----------------------------------------------------------------------------
(* Properties. *)

Running(p) == pc[p] # "off"

\* The file holds a collection.
HoldsList(file) == file.exists /\ file.kind = "list"

\* The call of p has got its value from load_expenses.
Loaded(p) ==
  \/ pc[p] \in {"save_open", "save_dump", "view_show", "sum_export"}
  \/ pc[p] = "idle" /\ loc[p].at_load.exists

\* The value load_expenses returned to the call of p.
LoadedValue(p) == IF loc[p].op = "add" THEN Front(loc[p].exp) ELSE loc[p].exp

\* C1: save_expenses is atomic. From the moment save_expenses is entered,
\* through a failing write or a stop of the process, and after it, the
\* durable document holds the complete previous collection or the complete
\* new one, never an empty or partly written text.
C1_SaveIsAtomic ==
  \A p \in Procs :
    loc[p].sv # "none" =>
      /\ HoldsList(doc)
      /\ doc \in {loc[p].sv_old, ListFile(loc[p].exp)}

\* C2: ensure_expenses_file never raises to its caller, whatever the state
\* of the document and whichever rename or write fails.
C2_EnsureNeverRaises ==
  \A p \in Procs : out[p].ens # "raised"

C4_AppendOnly ==
  (HoldsList(doc0) /\ pc[1] = "idle") => doc = ListFile(hist)

NonNegativeNumber(f) ==
  /\ f.ok
  /\ \/ f.kind = "num" /\ (~f.neg \/ f.mills = 0)
     \/ f.kind = "inf" /\ ~f.neg

\* C6: add_expense stores an entry only when the date is a valid
\* YYYY-MM-DD date and the amount parses as a non-negative number, so every
\* entry it adds has a valid date and amount >= 0; with another date or
\* amount it returns False and leaves the document as it is.
C6_OnlyValidEntriesStored ==
  \A p \in Procs :
    /\ (out[p].op = "add" /\ out[p].ret = "True") =>
         /\ Strptime(loc[p].date_str).ok
         /\ NonNegativeNumber(ParseFloat(loc[p].amount_str))
         /\ loc[p].entry.amount.kind \in {"num", "inf"}
         /\ loc[p].entry.amount.cents >= 0
    /\ (out[p].op = "add" /\ out[p].why \in {"date", "amount"}) =>
         /\ out[p].ret = "False"
         /\ doc = loc[p].at_call
         /\ pc[p] = "idle"

\* The call of p is a generate_monthly_summary that went through its
\* aggregation and exports.
Summarized(p) ==
  out[p].op = "summary" /\ out[p].ret = "None" /\ out[p].why = "-"

\* The positions of the entries of d whose date parses and lies in the month.
MonthPositions(d, month, year) ==
  {i \in 1..Len(d) :
     LET t == Strptime(d[i].date) IN t.ok /\ t.y = year /\ t.m = month}

KeyAt(d, i) == IF d[i].hascat THEN d[i].category ELSE Misc

\* The sum of the amounts at the positions I of d, in hundredths.
RECURSIVE CentsAt(_, _)
CentsAt(d, I) ==
  IF I = {} THEN 0
  ELSE LET i == CHOOSE j \in I : TRUE
       IN d[i].amount.cents + CentsAt(d, I \ {i})

RECURSIVE CentsOf(_)
CentsOf(items) ==
  IF items = <<>> THEN 0 ELSE CentsOf(Front(items)) + Last(items).val.cents

\* C7: for a month in 1..12 the summary has one key for each category of
\* the entries whose date parses and lies in the (year, month), an entry
\* without category counting as "Misc" and keys differing in case being
\* different keys; each key's value is the sum of the amounts of exactly
\* those entries, and the grand total is the sum of the values. With no such
\* entry the summary is empty and the total 0, without error.
C7_SummaryIsPerCategorySum ==
  \A p \in Procs :
    Summarized(p) =>
      LET d     == doc.data
          here  == MonthPositions(d, loc[p].month, loc[p].year)
          items == out[p].summary
      IN /\ loc[p].month \in 1..12
         /\ {items[i].key : i \in 1..Len(items)} = {KeyAt(d, i) : i \in here}
         /\ \A i, j \in 1..Len(items) : items[i].key = items[j].key => i = j
         /\ \A i \in 1..Len(items) :
              items[i].val =
                [kind |-> "num",
                 cents |-> CentsAt(d, {j \in here : KeyAt(d, j) = items[i].key})]
         /\ out[p].total = [kind |-> "num", cents |-> CentsAt(d, here)]
         /\ out[p].total.cents = CentsOf(items)
         /\ here = {} => (items = <<>> /\ out[p].total = Zero)

\* A summary of three entries: one with a date that does not parse, left
\* out; one without category, counted as "Misc"; two keys in all.
C7_Witness ==
  \E p \in Procs :
    /\ Summarized(p)
    /\ Len(doc.data) = 3
    /\ \E i \in 1..3 : ~Strptime(doc.data[i].date).ok
    /\ Len(out[p].summary) = 2
    /\ DictHas(out[p].summary, Misc)

\* C8: the category rows of the CSV are those the summary displays, in the
\* same order: by lower-cased category name, whatever order the entries
\* were stored in.
C8_CsvRowsInDisplayOrder ==
  \A p \in Procs :
    (Summarized(p) /\ "csv" \in out[p].wrote) =>
      LET rows == DictKeys(exports[<<"csv", MonthName(loc[p].month), loc[p].year>>].items)
      IN /\ rows = out[p].shown
         /\ \A i, j \in 1..Len(rows) :
              i < j => ~StrLess(Lower(rows[j]), Lower(rows[i]))

\* The names of the export files of the call of p, for the formats F.
ExportsOf(p, F) == {<<fmt, MonthName(loc[p].month), loc[p].year>> : fmt \in F}

\* The formats whose flag the call of p has set.
Flagged(p) ==
  {fmt \in {"json", "csv"} : IF fmt = "json" THEN loc[p].export_json
                                           ELSE loc[p].export_csv}

\* C9: an export file is written only for a non-empty summary. A call with
\* no entry in the month, or with a month outside 1..12, creates and
\* overwrites no file whatever the flags, and returns normally; a call with
\* a non-empty summary writes the files of exactly the formats whose flag is
\* set, a failing write being reported while the call goes on to the next
\* format and returns normally. No other step touches an export file.
C9_ExportOnlyNonEmpty ==
  [][\A p \in Procs :
       /\ (pc[p] = "sum_export" /\ pc'[p] = "idle") =>
            LET some == MonthPositions(loc[p].exp, loc[p].month, loc[p].year) # {}
            IN /\ out'[p].ret = "None"
               /\ ~some => (exports' = exports /\ out'[p].tried = {})
               /\ some =>
                    /\ out'[p].tried = Flagged(p)
                    /\ out'[p].wrote \subseteq out'[p].tried
                    /\ \A n \in ExportsOf(p, out'[p].wrote) :
                         exports'[n].exists /\ exports'[n].ok
                    /\ \A n \in ExportNames \ ExportsOf(p, Flagged(p)) :
                         exports'[n] = exports[n]
       /\ (pc[p] = "idle" /\ pc'[p] = "idle" /\ out'[p].why = "month") =>
            (exports' = exports /\ out'[p].ret = "None")
       /\ (Running(p) /\ pc[p] # "sum_export") => exports' = exports]_vars

\* The JSON export of a non-empty summary has failed, and the call has gone
\* on to write the CSV and has returned.
C9_Witness ==
  \E p \in Procs :
    /\ Summarized(p)
    /\ out[p].summary # <<>>
    /\ out[p].tried = {"json", "csv"}
    /\ out[p].wrote = {"csv"}
    /\ exports[<<"csv", MonthName(loc[p].month), loc[p].year>>].ok

\* Both processes' add_expense have returned True.
BothAdded ==
  \A p \in Procs : pc[p] = "idle" /\ out[p].op = "add" /\ out[p].ret = "True"

\* C10: add_expense loads, appends and saves the whole document without a
\* lock. When the add_expense of one process starts after that of the other
\* has returned True, and returns True, the document holds the initial
\* collection followed by both entries; calls that overlap can both return
\* True and leave only one of the two entries (C10_Witness).
C10_BothPresentWithoutOverlap ==
  \A p, q \in Procs :
    (p # q /\ BothAdded /\ q \in loc[p].after) =>
      /\ HoldsList(doc)
      /\ doc.data = hist
      /\ Len(doc.data) = Len(IF HoldsList(doc0) THEN doc0.data ELSE <<>>) + 2
      /\ doc.data[Len(doc.data) - 1] = loc[q].entry
      /\ Last(doc.data) = loc[p].entry

\* Two overlapping calls have both returned True and the document holds the
\* initial collection and the entry of one of them only: a lost update.
C10_Witness ==
  \E p, q \in Procs :
    /\ p # q
    /\ BothAdded
    /\ q \notin loc[p].after /\ p \notin loc[q].after
    /\ loc[p].entry # loc[q].entry
    /\ HoldsList(doc0)
    /\ doc = ListFile(Append(doc0.data, loc[p].entry))

====
